---- MODULE Spec2Model ----
(***************************************************************************)
(* Model of src/app.py: the name search over a folder of Excel workbooks   *)
(* (NameSearcher), the pattern preparation (prepare_search_terms) and the  *)
(* Streamlit session handlers of main().                                   *)
(*                                                                         *)
(* A Python str is a sequence of one-character strings.  A cell that       *)
(* pandas reads as NaN (an empty cell; with dtype=str an empty text is NaN *)
(* too) is the empty sequence NaN.  A Python value that may be None is a   *)
(* record: NoneVal, or Some(v).                                            *)
(***************************************************************************)
EXTENDS Integers, Sequences, FiniteSets, TLC

\* ------------------------------------------------------------------ bounds

\* The largest number of workbooks in the folder.
MaxFiles == 2

\* nrows=10 of the read in extract_part_number.
PartRows == 10

\* "row 6" of extract_part_number: len(df) > 5 and df.iloc[5].
PartRowIndex == 5

\* ----------------------------------------------------------- Python values

NoneVal == [none |-> TRUE]

Some(v) == [none |-> FALSE, v |-> v]

NaN == <<>>

notna(cell) == cell # NaN

Range(s) == {s[i] : i \in 1..Len(s)}

\* ---------------------------------------------------------------- strings

\* The code point of a character: Python orders str values by code point.
Ord(c) ==
  CASE c = "\n" -> 10 [] c = " " -> 32 [] c = "(" -> 40 [] c = ")" -> 41
    [] c = "*" -> 42 [] c = "." -> 46 [] c = "/" -> 47 [] c = "1" -> 49
    [] c = "2" -> 50 [] c = ":" -> 58 [] c = "?" -> 63 [] c = "A" -> 65
    [] c = "B" -> 66 [] c = "E" -> 69 [] c = "F" -> 70 [] c = "N" -> 78
    [] c = "P" -> 80 [] c = "Q" -> 81 [] c = "a" -> 97 [] c = "b" -> 98
    [] c = "d" -> 100 [] c = "i" -> 105 [] c = "n" -> 110 [] c = "o" -> 111
    [] c = "r" -> 114 [] c = "t" -> 116 [] c = "u" -> 117 [] c = "x" -> 120
    [] c = "y" -> 121

\* str < str.
RECURSIVE StrLess(_, _)
StrLess(s, t) ==
  IF t = <<>> THEN FALSE
  ELSE IF s = <<>> THEN TRUE
  ELSE IF Head(s) = Head(t) THEN StrLess(Tail(s), Tail(t))
  ELSE Ord(Head(s)) < Ord(Head(t))

\* The lower case of a character, as (?i) compares.
Lower(c) == CASE c = "A" -> "a" [] c = "B" -> "b" [] c = "E" -> "e"
              [] c = "F" -> "f" [] c = "N" -> "n" [] c = "P" -> "p"
              [] c = "Q" -> "q" [] OTHER -> c

IsSpace(c) == c \in {" ", "\n"}

\* str.strip()
RECURSIVE LStrip(_)
LStrip(s) == IF s # <<>> /\ IsSpace(Head(s)) THEN LStrip(Tail(s)) ELSE s

RECURSIVE RStrip(_)
RStrip(s) ==
  IF s # <<>> /\ IsSpace(s[Len(s)]) THEN RStrip(SubSeq(s, 1, Len(s) - 1)) ELSE s

Strip(s) == RStrip(LStrip(s))

\* str.split(sep) for a one-character sep: the pieces between the separators.
RECURSIVE SplitAcc(_, _, _, _)
SplitAcc(s, sep, cur, acc) ==
  IF s = <<>> THEN Append(acc, cur)
  ELSE IF Head(s) = sep THEN SplitAcc(Tail(s), sep, <<>>, Append(acc, cur))
  ELSE SplitAcc(Tail(s), sep, Append(cur, Head(s)), acc)

Split(s, sep) == SplitAcc(s, sep, <<>>, <<>>)

\* str.splitlines(): the lines, without a last empty line after a final "\n".
SplitLines(s) ==
  LET parts == Split(s, "\n")
  IN IF parts[Len(parts)] = <<>> THEN SubSeq(parts, 1, Len(parts) - 1) ELSE parts

\* str.split(): the whitespace-delimited tokens.
RECURSIVE TokensAcc(_, _, _)
TokensAcc(s, cur, acc) ==
  IF s = <<>> THEN (IF cur = <<>> THEN acc ELSE Append(acc, cur))
  ELSE IF IsSpace(Head(s))
       THEN TokensAcc(Tail(s), <<>>, IF cur = <<>> THEN acc ELSE Append(acc, cur))
       ELSE TokensAcc(Tail(s), Append(cur, Head(s)), acc)

Tokens(s) == TokensAcc(s, <<>>, <<>>)

\* ':' in cell_str
Contains(s, c) == \E i \in 1..Len(s) : s[i] = c

\* ------------------------------------------------------------------ regex
\* re.search for the patterns the program builds: an optional leading (?i),
\* then atoms (a literal or '.') each optionally followed by '*'.  A
\* parenthesis that does not belong to the leading (?i), or a '*' with
\* nothing to repeat, makes re.search raise re.error.

FlagPrefix == <<"(", "?", "i", ")">>

HasFlag(p) == Len(p) >= 4 /\ SubSeq(p, 1, 4) = FlagPrefix

PatternBody(p) == IF HasFlag(p) THEN SubSeq(p, 5, Len(p)) ELSE p

ReMalformed(p) ==
  LET b == PatternBody(p)
  IN \E i \in 1..Len(b) :
       \/ b[i] \in {"(", ")"}
       \/ b[i] = "*" /\ (i = 1 \/ b[i - 1] = "*")

\* Do atoms of b from position k on match s from position j on (a prefix)?
RECURSIVE MatchAt(_, _, _, _, _)
MatchAt(b, k, s, j, ci) ==
  IF k > Len(b) THEN TRUE
  ELSE
    LET star == k < Len(b) /\ b[k + 1] = "*"
        one  == /\ j <= Len(s)
                /\ \/ b[k] = "."
                   \/ IF ci THEN Lower(b[k]) = Lower(s[j]) ELSE b[k] = s[j]
    IN IF star
       THEN MatchAt(b, k + 2, s, j, ci) \/ (one /\ MatchAt(b, k, s, j + 1, ci))
       ELSE one /\ MatchAt(b, k + 1, s, j + 1, ci)

\* re.search(pattern, s) of a well-formed pattern: a match at some position.
ReSearch(p, s) ==
  \E start \in 1..(Len(s) + 1) : MatchAt(PatternBody(p), 1, s, start, HasFlag(p))

\* -------------------------------------------------------- sentinel strings

NA == <<"N", "/", "A">>

Error == <<"E", "r", "r", "o", "r">>

NotFound == <<"N", "o", "t", " ", "F", "o", "u", "n", "d">>

\* ---------------------------------------------------- prepare_search_terms

\* f".*{name}.*"
Pattern1(name) == <<".", "*">> \o name \o <<".", "*">>

\* f"(?i).*{name}.*"
Pattern2(name) == FlagPrefix \o <<".", "*">> \o name \o <<".", "*">>

RECURSIVE TermsOf(_)
TermsOf(names) ==
  IF names = <<>> THEN <<>>
  ELSE <<Pattern1(Head(names)), Pattern2(Head(names))>> \o TermsOf(Tail(names))

\* search_names_map: a later name overwrites an earlier one with the same key.
NamesMapOf(names) ==
  [p \in Range(TermsOf(names)) |->
     LET last == CHOOSE i \in 1..Len(names) :
                   /\ p \in {Pattern1(names[i]), Pattern2(names[i])}
                   /\ \A j \in (i + 1)..Len(names) :
                        p \notin {Pattern1(names[j]), Pattern2(names[j])}
     IN names[last]]

prepare_search_terms(names) ==
  [search_terms |-> TermsOf(names), search_names_map |-> NamesMapOf(names)]

\* search_names_map.get(pattern, pattern)
MapGet(map, pattern) == IF pattern \in DOMAIN map THEN map[pattern] ELSE pattern

\* ----------------------------------------------------- extract_part_number

Take(s, n) == SubSeq(s, 1, IF Len(s) < n THEN Len(s) ELSE n)

\* cell_str.split(':')[-1].strip()
AfterColon(cell_str) ==
  LET parts == Split(cell_str, ":") IN Strip(parts[Len(parts)])

\* The loop over row_6_data, from cell i on.
RECURSIVE PartOfRow(_, _)
PartOfRow(row, i) ==
  IF i > Len(row) THEN NA
  ELSE IF notna(row[i]) /\ Contains(row[i], ":") /\ AfterColon(row[i]) # <<>>
       THEN AfterColon(row[i])
       ELSE PartOfRow(row, i + 1)

\* A faulty variant: the loop returns at the first cell that holds a colon.
RECURSIVE PartOfRowFirstColon(_, _)
PartOfRowFirstColon(row, i) ==
  IF i > Len(row) THEN NA
  ELSE IF notna(row[i]) /\ Contains(row[i], ":")
       THEN (IF AfterColon(row[i]) # <<>> THEN AfterColon(row[i]) ELSE NA)
       ELSE PartOfRowFirstColon(row, i + 1)

extract_part_number_first_colon(wb) ==
  IF ~wb.part_ok THEN Error
  ELSE LET df == Take(wb.sheets[1], PartRows)
       IN IF Len(df) > PartRowIndex
          THEN PartOfRowFirstColon(df[PartRowIndex + 1], 1) ELSE NA

\* wb.part_ok: whether the read of line 20 succeeds.
extract_part_number(wb) ==
  IF ~wb.part_ok THEN Error
  ELSE LET df == Take(wb.sheets[1], PartRows)
       IN IF Len(df) > PartRowIndex THEN PartOfRow(df[PartRowIndex + 1], 1) ELSE NA

\* ------------------------------------------------------ extract_row_number

extract_row_number(matched_content) ==
  LET parts == Tokens(Strip(matched_content))
  IN IF parts # <<>> THEN parts[1] ELSE <<>>

\* ------------------------------------------------ search_single_excel_file

RECURSIVE Flatten(_)
Flatten(ss) == IF ss = <<>> THEN <<>> ELSE Head(ss) \o Flatten(Tail(ss))

\* The rows df.iterrows() yields for one sheet read with the default header=0:
\* the first row of the sheet is the header and is not a row of df.
DataRows(sheet) == IF sheet = <<>> THEN <<>> ELSE Tail(sheet)

\* The cells in the order of the three loops: sheet, row, column.
ScanOrder(wb) ==
  Flatten([k \in 1..Len(wb.sheets) |-> Flatten(DataRows(wb.sheets[k]))])

\* The loop over search_terms for one cell, from pattern k on:
\* "raise" when re.search raises, the index of the first match, or 0.
RECURSIVE FirstMatch(_, _, _)
FirstMatch(cell_str, search_terms, k) ==
  IF k > Len(search_terms) THEN [raise |-> FALSE, k |-> 0]
  ELSE IF ReMalformed(search_terms[k]) THEN [raise |-> TRUE, k |-> k]
  ELSE IF ReSearch(search_terms[k], cell_str) THEN [raise |-> FALSE, k |-> k]
  ELSE FirstMatch(cell_str, search_terms, k + 1)

MatchRecord(search_name, part_number, cell_str) ==
  [Searched_Name   |-> search_name,
   Part_Number     |-> part_number,
   Row_Number      |-> extract_row_number(cell_str),
   Matched_Content |-> cell_str]

\* The three loops, from cell i of the scan order on; an exception ends the
\* scan and the results so far are returned.
RECURSIVE ScanCells(_, _, _, _, _, _)
ScanCells(cells, i, search_terms, search_names_map, part_number, results) ==
  IF i > Len(cells) THEN results
  ELSE IF ~notna(cells[i])
       THEN ScanCells(cells, i + 1, search_terms, search_names_map,
                      part_number, results)
  ELSE LET m == FirstMatch(cells[i], search_terms, 1)
       IN IF m.raise THEN results
          ELSE ScanCells(cells, i + 1, search_terms, search_names_map, part_number,
                 IF m.k = 0 THEN results
                 ELSE Append(results,
                        MatchRecord(MapGet(search_names_map, search_terms[m.k]),
                                    part_number, cells[i])))

\* A faulty variant: a failed part number extraction ends the search of the workbook.
search_single_excel_file_abort(wb, search_terms, search_names_map) ==
  IF ~wb.scan_ok \/ ~wb.part_ok THEN <<>>
  ELSE ScanCells(ScanOrder(wb), 1, search_terms, search_names_map,
                 extract_part_number(wb), <<>>)

\* wb.scan_ok: whether the read of line 53 succeeds.
search_single_excel_file(wb, search_terms, search_names_map) ==
  IF ~wb.scan_ok THEN <<>>
  ELSE ScanCells(ScanOrder(wb), 1, search_terms, search_names_map,
                 extract_part_number(wb), <<>>)

\* ---------------------------------------------------- create_results_excel

\* A faulty variant: the insertion goes before the records of the same name.
RECURSIVE InsertUnstable(_, _)
InsertUnstable(sorted, r) ==
  IF sorted = <<>> THEN <<r>>
  ELSE IF StrLess(Head(sorted).Searched_Name, r.Searched_Name)
       THEN <<Head(sorted)>> \o InsertUnstable(Tail(sorted), r)
       ELSE <<r>> \o sorted

\* Insertion after every record whose Searched_Name is not greater.
RECURSIVE InsertStable(_, _)
InsertStable(sorted, r) ==
  IF sorted = <<>> THEN <<r>>
  ELSE IF StrLess(r.Searched_Name, Head(sorted).Searched_Name)
       THEN <<r>> \o sorted
       ELSE <<Head(sorted)>> \o InsertStable(Tail(sorted), r)

RECURSIVE SortAcc(_, _)
SortAcc(results, sorted) ==
  IF results = <<>> THEN sorted
  ELSE SortAcc(Tail(results), InsertStable(sorted, Head(results)))

\* results_df.sort_values('Searched_Name', kind='stable')
sort_values(results) == SortAcc(results, <<>>)

\* ------------------------------------------------------------ name inputs

\* [line.strip() for line in lines if line.strip()]
RECURSIVE StripDropBlank(_)
StripDropBlank(lines) ==
  IF lines = <<>> THEN <<>>
  ELSE (IF Strip(Head(lines)) # <<>> THEN <<Strip(Head(lines))>> ELSE <<>>)
       \o StripDropBlank(Tail(lines))

\* A faulty variant: every line is stripped and kept.
StripEveryLine(lines) == [i \in 1..Len(lines) |-> Strip(lines[i])]

\* The names of a text: the comprehension of lines 249, 267 and 294.
NamesOfLines(lines) == StripDropBlank(lines)

\* df[column].dropna().unique(): the values that are not NaN, each once, in
\* the order of their first occurrence.
RECURSIVE DropnaUnique(_, _)
DropnaUnique(col, acc) ==
  IF col = <<>> THEN acc
  ELSE DropnaUnique(Tail(col),
         IF notna(Head(col)) /\ Head(col) \notin Range(acc)
         THEN Append(acc, Head(col)) ELSE acc)

\* The texts typed into the text area.
ManualInputs ==
  { <<"a", "b", "\n", " ", "b", " ">>,
    <<" ", "\n", " ">>,
    <<"a", "(", "\n", "a", "b">>,
    <<"a", "b", "\n", "\n", "a", "b", "\n", "B", "a", "\n">> }

\* The uploaded text files: decodable says whether decode('utf-8') succeeds.
TxtFiles ==
  { [decodable |-> TRUE,  text |-> <<"\n", " ", "\n">>],
    [decodable |-> TRUE,  text |-> <<"B", "a", "\n", "b">>],
    [decodable |-> FALSE, text |-> <<>>] }

\* The chosen column of an uploaded workbook: readable says whether
\* pd.read_excel succeeds.
ExcelInputs ==
  { [readable |-> TRUE,  column |-> <<<<"A", "b">>, NaN, <<"A", "b">>, <<" ", "A", "b">>>>],
    [readable |-> TRUE,  column |-> <<<<" ">>, NaN>>],
    [readable |-> FALSE, column |-> <<>>] }

\* -------------------------------------------------------------- workbooks
\* A workbook is [sheets, part_ok, scan_ok]: its sheets in order, each a
\* sequence of rows of cells, and whether each of the two reads succeeds.

EmptyRow == <<NaN, NaN>>

SheetPlain ==
  << <<<<"a", "b">>, NaN>>,
     <<NaN, <<"1", " ", "a", "b">>>>,
     <<<<"A", "B">>, <<"b">>>>,
     EmptyRow,
     EmptyRow,
     <<<<"P", ":">>, <<"x", ":", "y", ":", " ", "1", "2">>>> >>

SheetNotFound ==
  << EmptyRow,
     <<<<"a", "b">>, <<"2", " ", "a", "b">>>>,
     EmptyRow,
     EmptyRow,
     EmptyRow,
     <<<<"P", ":", "N", "o", "t", " ", "F", "o", "u", "n", "d">>, NaN>> >>

SheetNoPart ==
  << EmptyRow,
     <<<<"b">>, NaN>>,
     EmptyRow,
     EmptyRow,
     EmptyRow,
     <<<<"P", ":", " ">>, <<"Q", ":">>>> >>

SheetShort == << EmptyRow, <<NaN, <<"A", "B">>>> >>

Workbooks ==
  { [sheets |-> <<SheetPlain>>,                part_ok |-> TRUE,  scan_ok |-> TRUE],
    [sheets |-> <<SheetShort>>,                part_ok |-> TRUE,  scan_ok |-> FALSE],
    [sheets |-> <<SheetPlain>>,                part_ok |-> FALSE, scan_ok |-> TRUE],
    [sheets |-> <<SheetNotFound, SheetShort>>, part_ok |-> TRUE,  scan_ok |-> TRUE],
    [sheets |-> <<SheetNoPart, <<>>>>,         part_ok |-> TRUE,  scan_ok |-> TRUE] }

\* ------------------------------------------------------------------ state

VARIABLES
  folder,               \* the workbooks of excel_output, in glob order
  search_terms,         \* st.session_state.search_terms
  search_terms_display, \* st.session_state.search_terms_display
  search_names_map,     \* st.session_state.search_names_map
  results_data,         \* st.session_state.results_data
  results_df,           \* the table create_results_excel made in the last render
  pc,                   \* where the script run is
  excel_files,          \* search_all_excel_files: excel_files
  idx,                  \* the number of workbooks searched
  file_results,         \* file_results of the last workbook searched
  part_number,          \* part_number of the last workbook searched
  all_results,          \* search_all_excel_files: all_results
  found_names,          \* search_all_excel_files: found_names
  not_found_names,      \* the names of not_found_names still to append
  ret                   \* what search_all_excel_files returned

session == <<search_terms, search_terms_display, search_names_map, results_data,
             results_df>>

locals == <<excel_files, idx, file_results, part_number, all_results, found_names,
            not_found_names, ret>>

vars == <<folder, session, pc, locals>>

\* if st.session_state.search_terms:
Truthy(terms) == ~terms.none /\ terms.v # <<>>

\* A faulty variant: the folder is never found empty.
NoFilesNever(files) == FALSE

\* if not excel_files:
NoFiles(files) == files = <<>>

Init ==
  /\ folder \in UNION {[1..n -> Workbooks] : n \in 1..MaxFiles}
  /\ search_terms = NoneVal
  /\ search_terms_display = <<>>
  /\ search_names_map = <<>>
  /\ results_data = NoneVal
  /\ results_df = NoneVal
  /\ pc = "idle"
  /\ excel_files = <<>>
  /\ idx = 0
  /\ file_results = <<>>
  /\ part_number = <<>>
  /\ all_results = <<>>
  /\ found_names = {}
  /\ not_found_names = {}
  /\ ret = NoneVal

\* The script reaches the sidebar: excel_output holds a workbook (line 207).
Ready == pc = "idle" /\ ~NoFiles(folder)

\* A faulty variant: the load keeps the stored results.
LoadNamesKeepResults(names) ==
  /\ search_terms' = Some(prepare_search_terms(names).search_terms)
  /\ search_terms_display' = names
  /\ search_names_map' = prepare_search_terms(names).search_names_map
  /\ UNCHANGED <<results_data, results_df, folder, pc, locals>>

\* The assignments of a load (lines 250-256), then the rerun renders no result.
LoadNames(names) ==
  /\ search_terms' = Some(prepare_search_terms(names).search_terms)
  /\ search_terms_display' = names
  /\ search_names_map' = prepare_search_terms(names).search_names_map
  /\ results_data' = NoneVal
  /\ results_df' = NoneVal
  /\ UNCHANGED <<folder, pc, locals>>

\* "Load Names" of the typed text.
LoadManual ==
  /\ Ready
  /\ \E manual_input \in ManualInputs :
       /\ Strip(manual_input) # <<>>
       /\ LoadNames(NamesOfLines(SplitLines(manual_input)))

\* "Load" of an uploaded text file.
LoadTxt ==
  /\ Ready
  /\ \E txt_file \in TxtFiles :
       /\ txt_file.decodable
       /\ LoadNames(NamesOfLines(SplitLines(txt_file.text)))

\* "Load" of a column of an uploaded workbook.
LoadExcel ==
  /\ Ready
  /\ \E excel_input \in ExcelInputs :
       /\ excel_input.readable
       /\ LoadNames(NamesOfLines(DropnaUnique(excel_input.column, <<>>)))

\* "Clear".
Clear ==
  /\ Ready
  /\ Truthy(search_terms)
  /\ search_terms' = NoneVal
  /\ search_terms_display' = <<>>
  /\ search_names_map' = <<>>
  /\ results_data' = NoneVal
  /\ results_df' = NoneVal
  /\ UNCHANGED <<folder, pc, locals>>

\* "START SEARCH": search_all_excel_files is called with the session's
\* search_terms, search_names_map and search_terms_display.
StartSearch ==
  /\ Ready
  /\ Truthy(search_terms)
  /\ pc' = "glob"
  /\ UNCHANGED <<folder, session, locals>>

\* The files of excel_output are removed while the script runs.
FolderEmptied ==
  /\ pc \in {"idle", "glob"}
  /\ folder # <<>>
  /\ folder' = <<>>
  /\ UNCHANGED <<session, pc, locals>>

\* Lines 80-87.
Glob ==
  /\ pc = "glob"
  /\ excel_files' = folder
  /\ idx' = 0
  /\ file_results' = <<>>
  /\ part_number' = <<>>
  /\ all_results' = <<>>
  /\ found_names' = {}
  /\ not_found_names' = {}
  /\ IF NoFiles(folder)
     THEN /\ ret' = [results |-> NoneVal, file_count |-> "No Excel files found"]
          /\ pc' = "returned"
     ELSE /\ ret' = NoneVal
          /\ pc' = "loop"
  /\ UNCHANGED <<folder, session>>

\* One pass of the loop of lines 89-97.
SearchFile ==
  /\ pc = "loop"
  /\ idx < Len(excel_files)
  /\ LET found == search_single_excel_file(excel_files[idx + 1], search_terms.v,
                                           search_names_map)
     IN /\ file_results' = found
        /\ all_results' = all_results \o found
        /\ found_names' = found_names \cup {found[i].Searched_Name : i \in 1..Len(found)}
  /\ part_number' = extract_part_number(excel_files[idx + 1])
  /\ idx' = idx + 1
  /\ UNCHANGED <<folder, session, pc, excel_files, not_found_names, ret>>

\* Line 102, after the last workbook.
NotFoundNames ==
  /\ pc = "loop"
  /\ idx = Len(excel_files)
  /\ not_found_names' = Range(search_terms_display) \ found_names
  /\ pc' = "not_found"
  /\ UNCHANGED <<folder, session, excel_files, idx, file_results, part_number,
                 all_results, found_names, ret>>

\* One pass of the loop of lines 103-109: a set is iterated in any order.
AppendNotFound ==
  /\ pc = "not_found"
  /\ \E name \in not_found_names :
       /\ all_results' = Append(all_results,
                           [Searched_Name |-> name, Part_Number |-> NotFound,
                            Row_Number |-> <<>>, Matched_Content |-> <<>>])
       /\ not_found_names' = not_found_names \ {name}
  /\ UNCHANGED <<folder, session, pc, excel_files, idx, file_results, part_number,
                 found_names, ret>>

\* Line 111.
Return ==
  /\ pc = "not_found"
  /\ not_found_names = {}
  /\ ret' = [results |-> Some(all_results), file_count |-> Len(excel_files)]
  /\ pc' = "returned"
  /\ UNCHANGED <<folder, session, excel_files, idx, file_results, part_number,
                 all_results, found_names, not_found_names>>

\* Lines 333-340, then the render of lines 343-374: the results are stored and
\* the rerun sorts them into the table of create_results_excel.  The locals
\* of the call are gone.
ShowResults ==
  /\ pc = "returned"
  /\ IF ret.results.none
     THEN UNCHANGED <<results_data, results_df>>
     ELSE /\ results_data' = Some([results |-> ret.results.v,
                                   file_count |-> ret.file_count])
          /\ results_df' = IF ret.results.v # <<>>
                           THEN Some(sort_values(ret.results.v)) ELSE NoneVal
  /\ pc' = "idle"
  /\ excel_files' = <<>>
  /\ idx' = 0
  /\ file_results' = <<>>
  /\ part_number' = <<>>
  /\ all_results' = <<>>
  /\ found_names' = {}
  /\ not_found_names' = {}
  /\ ret' = NoneVal
  /\ UNCHANGED <<folder, search_terms, search_terms_display, search_names_map>>

Next ==
  \/ LoadManual
  \/ LoadTxt
  \/ LoadExcel
  \/ Clear
  \/ StartSearch
  \/ FolderEmptied
  \/ Glob
  \/ SearchFile
  \/ NotFoundNames
  \/ AppendNotFound
  \/ Return
  \/ ShowResults

Spec == Init /\ [][Next]_vars

\* ----------------------------------------------------------------- claims

\* The records of the names, by kind.
IsNotFoundPart(r) == r.Part_Number = NotFound

IndicesOf(results, name) ==
  {i \in 1..Len(results) : results[i].Searched_Name = name}

\* Is the pattern well formed and does it match the cell?
Matches(pattern, cell_str) == ~ReMalformed(pattern) /\ ReSearch(pattern, cell_str)

MatchedBySome(terms, cell_str) ==
  \E k \in 1..Len(terms) : Matches(terms[k], cell_str)

\* The first pattern, in the declared order, that matches the cell.
FirstMatching(terms, cell_str) ==
  terms[CHOOSE k \in 1..Len(terms) :
                 /\ Matches(terms[k], cell_str)
                 /\ \A j \in 1..(k - 1) : ~Matches(terms[j], cell_str)]

\* The record a matched cell is to give.
RecordOfCell(wb, terms, cell_str) ==
  [Searched_Name   |-> NamesMapOf(search_terms_display)[FirstMatching(terms, cell_str)],
   Part_Number     |-> extract_part_number(wb),
   Row_Number      |-> extract_row_number(cell_str),
   Matched_Content |-> cell_str]

\* The non-empty cells of a sequence of cells that some pattern matches.
MatchedCells(cells, terms) ==
  LET hit(c) == notna(c) /\ MatchedBySome(terms, c) IN SelectSeq(cells, hit)

\* The search has just searched workbook idx.
Searched == pc = "loop" /\ idx >= 1

\* C1: when the search returns a record list, every searched name has either
\* at least one record whose Part_Number is not "Not Found" and no record
\* whose Part_Number is "Not Found", or exactly one record whose Part_Number
\* is "Not Found" and no other record.
C1_FoundOrNotFound ==
  (pc = "returned" /\ ~ret.results.none) =>
    \A name \in Range(search_terms_display) :
      LET mine  == IndicesOf(ret.results.v, name)
          found == {i \in mine : ~IsNotFoundPart(ret.results.v[i])}
          nf    == {i \in mine : IsNotFoundPart(ret.results.v[i])}
      IN \/ found # {} /\ nf = {}
         \/ found = {} /\ Cardinality(nf) = 1

\* C2: the records of a readable workbook are one per non-empty scanned cell
\* that some pattern matches, each with the name the pattern index gives the
\* first matching pattern; a cell no pattern matches gives no record.
C2_OneRecordPerMatchedCell ==
  (Searched /\ excel_files[idx].scan_ok) =>
    LET cells == MatchedCells(ScanOrder(excel_files[idx]), search_terms.v)
    IN /\ Len(file_results) = Len(cells)
       /\ \A i \in 1..Len(cells) :
            /\ file_results[i].Matched_Content = cells[i]
            /\ file_results[i].Searched_Name =
                 NamesMapOf(search_terms_display)[FirstMatching(search_terms.v, cells[i])]

\* Every cell of every row of every sheet, the first row too, in sheet, row,
\* column order.
AllCells(wb) == Flatten([k \in 1..Len(wb.sheets) |-> Flatten(wb.sheets[k])])

\* The records of an exhaustive, ordered scan of one workbook.
ExhaustiveRecords(wb, terms) ==
  IF ~wb.scan_ok THEN <<>>
  ELSE LET cells == MatchedCells(AllCells(wb), terms)
       IN [i \in 1..Len(cells) |-> RecordOfCell(wb, terms, cells[i])]

\* C3: the returned list is, workbook after workbook in enumeration order, one
\* record per matching non-empty cell of every row (the first row too) of
\* every sheet in sheet, row, column order, followed by the NotFoundRecords.
C3_ExhaustiveOrderedScan ==
  (pc = "returned" /\ ~ret.results.none) =>
    LET want == Flatten([i \in 1..Len(excel_files) |->
                           ExhaustiveRecords(excel_files[i], search_terms.v)])
        got  == ret.results.v
    IN /\ Len(got) >= Len(want)
       /\ SubSeq(got, 1, Len(want)) = want
       /\ \A i \in (Len(want) + 1)..Len(got) :
            IsNotFoundPart(got[i]) /\ got[i].Matched_Content = <<>>

\* The records each searched workbook gives when searched on its own.
AloneUpTo(n) ==
  Flatten([i \in 1..n |->
             search_single_excel_file(excel_files[i], search_terms.v,
                                      search_names_map)])

\* C4: a workbook whose read fails gives no record and the search goes on;
\* a workbook whose part number extraction alone fails gives the records of
\* its scan with the part number "Error"; the records gathered so far are
\* those every searched workbook gives on its own, in enumeration order.
C4_WorkbookErrorsIsolated ==
  /\ (pc = "loop" =>
        /\ all_results = AloneUpTo(idx)
        /\ \A i \in 1..idx :
             ~excel_files[i].scan_ok =>
               AloneUpTo(i) = AloneUpTo(i - 1))
  /\ (Searched =>
        LET wb == excel_files[idx]
        IN /\ ~wb.scan_ok => file_results = <<>>
           /\ (wb.scan_ok /\ ~wb.part_ok) =>
                LET whole == search_single_excel_file(
                               [wb EXCEPT !.part_ok = TRUE], search_terms.v,
                               search_names_map)
                IN /\ part_number = Error
                   /\ Len(file_results) = Len(whole)
                   /\ \A i \in 1..Len(whole) :
                        file_results[i] = [whole[i] EXCEPT !.Part_Number = Error])

\* A workbook whose read failed was passed and a later workbook gave records.
C4_Witness ==
  /\ Searched
  /\ idx = 2
  /\ ~excel_files[1].scan_ok
  /\ file_results # <<>>
  /\ all_results = file_results

WellFormedName(name) == ~ReMalformed(Pattern1(name))

\* C5: the records of the well-formed names of a workbook are those the
\* search gives without the malformed names in the list.
C5_MalformedNameIsolated ==
  Searched =>
    LET good == SelectSeq(search_terms_display, WellFormedName)
        mine(r) == WellFormedName(r.Searched_Name)
    IN SelectSeq(file_results, mine) =
         search_single_excel_file(excel_files[idx], TermsOf(good), NamesMapOf(good))

\* C6: search_all_excel_files returns no record list exactly when it found no
\* workbook; with workbooks and no match it returns one NotFoundRecord for
\* each distinct name, and the number of workbooks.
C6_NoFilesOrRecords ==
  pc = "returned" =>
    /\ ret.results.none <=> excel_files = <<>>
    /\ (~ret.results.none /\ found_names = {}) =>
         /\ ret.file_count = Len(excel_files)
         /\ ret.file_count >= 1
         /\ Len(ret.results.v) = Cardinality(Range(search_terms_display))
         /\ \A name \in Range(search_terms_display) :
              \E i \in 1..Len(ret.results.v) :
                /\ IndicesOf(ret.results.v, name) = {i}
                /\ IsNotFoundPart(ret.results.v[i])
                /\ ret.results.v[i].Matched_Content = <<>>

\* The search of a folder with workbooks returned without a match, for a list
\* that names a name twice.
C6_Witness ==
  /\ pc = "returned"
  /\ ~ret.results.none
  /\ found_names = {}
  /\ Len(search_terms_display) > Cardinality(Range(search_terms_display))

\* C7: while search_all_excel_files runs, the name list is not empty and no
\* name of it is empty after a trim.
C7_SearchHasNames ==
  pc # "idle" =>
    /\ search_terms_display # <<>>
    /\ \A i \in 1..Len(search_terms_display) :
         /\ search_terms_display[i] # <<>>
         /\ Strip(search_terms_display[i]) = search_terms_display[i]

\* The search runs on the names of a text that holds a blank line.
C7_Witness ==
  /\ pc = "glob"
  /\ search_terms_display = << <<"a", "b">>, <<"a", "b">>, <<"B", "a">> >>

\* C8: the table of create_results_excel is a permutation of the records,
\* non-decreasing in Searched_Name, and the records of one Searched_Name keep
\* their order.
C8_StableSort ==
  ~results_df.none =>
    LET r == results_data.v.results
        d == results_df.v
    IN /\ Len(d) = Len(r)
       /\ \A i, j \in 1..Len(d) :
            i < j => ~StrLess(d[j].Searched_Name, d[i].Searched_Name)
       /\ \A name \in {r[i].Searched_Name : i \in 1..Len(r)}
                        \cup {d[i].Searched_Name : i \in 1..Len(d)} :
            LET mine(x) == x.Searched_Name = name
            IN SelectSeq(d, mine) = SelectSeq(r, mine)

\* The sort moved a record, and two different records share a name.
C8_Witness ==
  /\ ~results_df.none
  /\ results_df.v # results_data.v.results
  /\ \E i, j \in 1..Len(results_df.v) :
       /\ i < j
       /\ results_df.v[i].Searched_Name = results_df.v[j].Searched_Name
       /\ results_df.v[i] # results_df.v[j]

\* The text after the last colon of a cell, trimmed.
TrailingText(cell_str) ==
  LET last == CHOOSE k \in 1..Len(cell_str) :
                /\ cell_str[k] = ":"
                /\ \A j \in (k + 1)..Len(cell_str) : cell_str[j] # ":"
  IN Strip(SubSeq(cell_str, last + 1, Len(cell_str)))

\* The part number of a workbook, as the claim gives it.
PartNumberOf(wb) ==
  IF ~wb.part_ok THEN Error
  ELSE IF Len(wb.sheets[1]) < 6 THEN NA
  ELSE LET row  == wb.sheets[1][6]
           good == {i \in 1..Len(row) :
                      /\ notna(row[i])
                      /\ \E k \in 1..Len(row[i]) : row[i][k] = ":"
                      /\ TrailingText(row[i]) # <<>>}
       IN IF good = {} THEN NA
          ELSE TrailingText(row[CHOOSE i \in good : \A j \in good : i <= j])

\* C9: the part number of a workbook is "Error" when the workbook cannot be
\* read, "N/A" when its first sheet has fewer than 6 rows or no cell of its
\* sixth row holds a colon followed by text, and otherwise the trimmed text
\* after the last colon of the first such cell; every record of the workbook
\* carries it.
C9_PartNumber ==
  Searched =>
    /\ part_number = PartNumberOf(excel_files[idx])
    /\ \A i \in 1..Len(file_results) : file_results[i].Part_Number = part_number

\* The first cell with a colon has no text after it, a later cell gives "12"
\* after its last colon, and the workbook gave records.
C9_Witness ==
  /\ Searched
  /\ part_number = <<"1", "2">>
  /\ file_results # <<>>

\* The session holds no names, or the patterns and the index of its names.
PatternsOfNames ==
  \/ /\ search_terms = NoneVal
     /\ search_terms_display = <<>>
     /\ search_names_map = <<>>
  \/ /\ search_terms = Some(TermsOf(search_terms_display))
     /\ search_names_map = NamesMapOf(search_terms_display)

\* The stored results are results for the names of the session.
ResultsOfNames ==
  ~results_data.none =>
    /\ Truthy(search_terms)
    /\ {results_data.v.results[i].Searched_Name :
          i \in 1..Len(results_data.v.results)} = Range(search_terms_display)

\* C10: the patterns and the index are those of the loaded names, stored
\* results are results for the loaded names, and every step that changes the
\* names, the patterns or the index leaves no stored results.
C10_SessionConsistent ==
  /\ [](PatternsOfNames /\ ResultsOfNames)
  /\ [][(<<search_terms, search_terms_display, search_names_map>>' #
           <<search_terms, search_terms_display, search_names_map>>)
          => results_data' = NoneVal]_vars

\* Results are stored for a list of three names.
C10_Witness ==
  /\ ~results_data.none
  /\ Len(search_terms_display) = 3
  /\ pc = "idle"

====
